---------------------------- MODULE Spec2Model ----------------------------
(***************************************************************************)
(* A model of the scripts of the repository:                               *)
(*   - binance-real-time-fetcher.py: the websocket thread, the periodic    *)
(*     save thread and the main thread around the lock-guarded buffer      *)
(*     current_second_data and the day's parquet file (SpecFetcher);       *)
(*   - aggregator_scripts/backtesting_results.py: backtest_strategy, the   *)
(*     per-row simulation loop and its summary metrics (SpecBacktest);     *)
(*   - aggregator_scripts/import_hist.py: download_binance_data            *)
(*     (SpecDownload);                                                     *)
(*   - aggregator_scripts/script.py: process_trade_files (SpecScript);     *)
(*   - simulator.py and page.py: class TradingBot called directly          *)
(*     (SpecBot), RSIStrategy (SpecRsi), and the loop of simulator.py's    *)
(*     main with MovingAverageStrategy (SpecSim).                          *)
(* Floating-point values are modelled as exact rationals <<n, d>>.         *)
(***************************************************************************)
EXTENDS Integers, Sequences, FiniteSets

VARIABLES
    \* ---- binance-real-time-fetcher.py ----
    pc,                   \* position of each thread
    ret,                  \* where save_to_parquet returns to, per thread
    buffer_lock,          \* the thread holding self.buffer_lock, or "none"
    current_second_data,  \* self.current_second_data
    is_connected,         \* self.is_connected
    trade_count,          \* self.trade_count
    last_save_time,       \* self.last_save_time
    now,                  \* time.time()
    ws_closed,            \* self.ws.close() has been called
    trade,                \* on_message's parsed [timestamp, price, volume]
    current_time,         \* the local current_time of each thread
    wake,                 \* when the periodic save thread's sleep ends
    current_data,         \* save_to_parquet's local current_data, per thread
    combined_df,          \* save_to_parquet's local combined_df, per thread
    parquet,              \* the day's parquet file
    nmsgs,                \* messages delivered so far
    msg_errors,           \* "Error processing message" lines printed
    failures,             \* "Error saving to parquet" lines printed
    received,             \* history: every trade appended to the buffer
    taken,                \* history: number of trades copied out by flushes
    overlap,              \* history: two flushes worked on the file at once
    flushed,              \* history: the batches of the flushes, end to end
    \* ---- aggregator_scripts/backtesting_results.py, backtest_strategy ----
    bt_pc,                \* "loop", "returned" or "raised"
    idx,                  \* rows of df iterated so far
    position,
    capital,
    entry_price,
    trades,
    equity_curve,
    result,               \* the dictionary backtest_strategy returns
    \* ---- aggregator_scripts/import_hist.py, download_binance_data ----
    dl_pc,                \* position in download_binance_data
    dl_args,              \* the arguments symbol and date_str
    response,             \* what requests.get returned
    dl_exc,               \* the exception raised inside the try block
    dl_result,            \* "pending", "DataFrame", "None" or "raised"
    \* ---- aggregator_scripts/script.py, process_trade_files ----
    pt_pc,                \* "idle", "loop" or "done"
    start_date,           \* the argument start_date
    end_date,             \* the argument end_date
    current_date,
    all_data,
    output,               \* btcusdt_trades_by_second.parquet
    printed,              \* the lines printed by the loop and the else
    visited,              \* history: the day files the loop looked for
    \* ---- simulator.py and page.py, class TradingBot called directly ----
    sim_bot,              \* a TradingBot of simulator.py
    page_bot,             \* a TradingBot of page.py, given the same calls
    ncalls,               \* calls made so far
    fetched,              \* what get_current_price returned to get_portfolio
    portfolio,            \* the outcome of the last get_portfolio call
    \* ---- simulator.py, RSIStrategy called directly ----
    rsi_pc,               \* "idle" or "done"
    rsi_args,             \* the arguments of the call
    rsi_result,           \* the method called and the truth of what it returned
    \* ---- simulator.py, main with the Moving Average strategy ----
    sim_pc,               \* "setup" or "loop"
    investment_amount,    \* main's investment_amount
    prices,               \* st.session_state.prices, also bot.price_history
    timestamps,           \* st.session_state.timestamps
    bot,                  \* st.session_state.bot
    fetch_errors,         \* "Error fetching price" boxes shown
    trade_calls           \* history: calls of bot.simulate_trade

fetcherVars == <<pc, ret, buffer_lock, current_second_data, is_connected,
                 trade_count, last_save_time, now, ws_closed, trade,
                 current_time, wake, current_data, combined_df, parquet,
                 nmsgs, msg_errors, failures, received, taken, overlap,
                 flushed>>

backtestVars == <<bt_pc, idx, position, capital, entry_price, trades,
                  equity_curve, result>>

downloadVars == <<dl_pc, dl_args, response, dl_exc, dl_result>>

scriptVars == <<pt_pc, start_date, end_date, current_date, all_data, output,
                printed, visited>>

botVars == <<sim_bot, page_bot, ncalls, fetched, portfolio>>

rsiVars == <<rsi_pc, rsi_args, rsi_result>>

simVars == <<sim_pc, investment_amount, prices, timestamps, bot, fetch_errors,
             trade_calls>>

nonFetcherVars == <<backtestVars, downloadVars, scriptVars, botVars, rsiVars,
                    simVars>>
nonBacktestVars == <<fetcherVars, downloadVars, scriptVars, botVars, rsiVars,
                     simVars>>
nonDownloadVars == <<fetcherVars, backtestVars, scriptVars, botVars, rsiVars,
                     simVars>>
nonScriptVars == <<fetcherVars, backtestVars, downloadVars, botVars, rsiVars,
                   simVars>>
nonBotVars == <<fetcherVars, backtestVars, downloadVars, scriptVars, rsiVars,
                simVars>>
nonRsiVars == <<fetcherVars, backtestVars, downloadVars, scriptVars, botVars,
                simVars>>
nonSimVars == <<fetcherVars, backtestVars, downloadVars, scriptVars, botVars,
                rsiVars>>

vars == <<fetcherVars, backtestVars, downloadVars, scriptVars, botVars,
          rsiVars, simVars>>

(***************************************************************************)
(* Bounds of the model.                                                    *)
(***************************************************************************)
MaxMsgs == 2
MaxTime == 1
MaxFailures == 1
MaxRows == 5
MaxDay == 2
MaxCalls == 4
MaxStep == 2
MaxTicks == 11
MaxFetchErrors == 1

(***************************************************************************)
(* Rationals <<n, d>> with d > 0, kept in lowest terms.                    *)
(***************************************************************************)
Abs(x) == IF x < 0 THEN -x ELSE x

RECURSIVE GCD(_, _)
GCD(a, b) == IF b = 0 THEN a ELSE GCD(b, a % b)

Rat(n, d) ==
    LET g == GCD(Abs(n), Abs(d))
        s == IF d < 0 THEN -1 ELSE 1
    IN  <<(s * n) \div g, (s * d) \div g>>

RInt(n) == <<n, 1>>
RMul(a, b) ==
    LET x == Rat(a[1], b[2])
        y == Rat(b[1], a[2])
    IN  Rat(x[1] * y[1], x[2] * y[2])
RDiv(a, b) == RMul(a, Rat(b[2], b[1]))
RAdd(a, b) == Rat(a[1] * b[2] + b[1] * a[2], a[2] * b[2])
RSub(a, b) == Rat(a[1] * b[2] - b[1] * a[2], a[2] * b[2])
RLess(a, b) == a[1] * b[2] < b[1] * a[2]
RLeq(a, b) == a[1] * b[2] <= b[1] * a[2]
RMax(a, b) == IF RLess(a, b) THEN b ELSE a

(***************************************************************************)
(* binance-real-time-fetcher.py                                            *)
(***************************************************************************)
Threads == {"ws", "saver", "main"}

save_interval == 1
MsPerSecond == 1000

\* The websocket messages delivered to on_message: json says whether
\* json.loads accepts the text, data is the parsed object.
EventTimes == {999, 1000}
Quotes == {[p |-> 1, q |-> 2], [p |-> 2, q |-> 1]}

TradeMessages ==
    {[json |-> TRUE, data |-> [E |-> e, p |-> x.p, q |-> x.q]] :
        e \in EventTimes, x \in Quotes}

MalformedMessages ==
    { [json |-> FALSE, data |-> <<>>],
      [json |-> TRUE, data |-> [p |-> 1, q |-> 1]],
      [json |-> TRUE, data |-> [E |-> 0, q |-> 1]],
      [json |-> TRUE, data |-> [E |-> 0, p |-> 1]] }

Messages == TradeMessages \cup MalformedMessages

NoTrade == [timestamp |-> 0, price |-> 0, volume |-> 0]

\* on_message's try block up to the lock: TRUE when json.loads and the three
\* field reads succeed.
Parses(m) ==
    /\ m.json
    /\ "E" \in DOMAIN m.data
    /\ "p" \in DOMAIN m.data
    /\ "q" \in DOMAIN m.data

ParsedTrade(m) ==
    [timestamp |-> m.data.E, price |-> m.data.p, volume |-> m.data.q]

\* df['timestamp'].dt.floor('S')
FloorS(ts) == ts - (ts % MsPerSecond)

RECURSIVE SumPrice(_)
SumPrice(s) == IF s = <<>> THEN 0 ELSE Head(s).price + SumPrice(Tail(s))

RECURSIVE SumVolume(_)
SumVolume(s) == IF s = <<>> THEN 0 ELSE Head(s).volume + SumVolume(Tail(s))

InSecond(s, sec) == SelectSeq(s, LAMBDA d : FloorS(d.timestamp) = sec)

RECURSIVE SortedSeq(_)
SortedSeq(S) ==
    IF S = {} THEN <<>>
    ELSE LET m == CHOOSE x \in S : \A y \in S : x <= y
         IN  <<m>> \o SortedSeq(S \ {m})

\* aggregate_second_data on a non-empty list: one row per second, in
\* ascending order (groupby sorts its keys), price the mean, volume the sum.
aggregate_second_data(data_list) ==
    LET secs == SortedSeq({FloorS(data_list[i].timestamp) :
                              i \in 1..Len(data_list)})
    IN  [k \in 1..Len(secs) |->
            LET g == InSecond(data_list, secs[k])
            IN  [timestamp |-> secs[k],
                 price |-> Rat(SumPrice(g), Len(g)),
                 volume |-> SumVolume(g)]]

\* drop_duplicates(subset=['timestamp'], keep='last')
RECURSIVE DropDuplicatesKeepLast(_)
DropDuplicatesKeepLast(rows) ==
    IF rows = <<>> THEN <<>>
    ELSE IF \E j \in 2..Len(rows) : rows[j].timestamp = Head(rows).timestamp
         THEN DropDuplicatesKeepLast(Tail(rows))
         ELSE <<Head(rows)>> \o DropDuplicatesKeepLast(Tail(rows))

RECURSIVE InsertRow(_, _)
InsertRow(r, sorted) ==
    IF sorted = <<>> THEN <<r>>
    ELSE IF r.timestamp < Head(sorted).timestamp
         THEN <<r>> \o sorted
         ELSE <<Head(sorted)>> \o InsertRow(r, Tail(sorted))

\* sort_values('timestamp')
RECURSIVE SortValues(_)
SortValues(rows) ==
    IF rows = <<>> THEN <<>>
    ELSE InsertRow(rows[Len(rows)], SortValues(SubSeq(rows, 1, Len(rows) - 1)))

\* concat, drop_duplicates, sort_values of save_to_parquet
Combine(existing_df, agg_df) ==
    SortValues(DropDuplicatesKeepLast(existing_df \o agg_df))

NoFile == [exists |-> FALSE, rows |-> <<>>]

InitFetcher ==
    /\ pc = [t \in Threads |-> IF t = "main" THEN "m_start" ELSE "idle"]
    /\ ret = [t \in Threads |-> "none"]
    /\ buffer_lock = "none"
    /\ current_second_data = <<>>
    /\ is_connected = FALSE
    /\ trade_count = 0
    /\ last_save_time = 0
    /\ now = 0
    /\ ws_closed = FALSE
    /\ trade = NoTrade
    /\ current_time = [t \in Threads |-> 0]
    /\ wake = 0
    /\ current_data = [t \in Threads |-> <<>>]
    /\ combined_df = [t \in Threads |-> <<>>]
    /\ parquet = NoFile
    /\ nmsgs = 0
    /\ msg_errors = 0
    /\ failures = 0
    /\ received = <<>>
    /\ taken = 0
    /\ overlap = FALSE
    /\ flushed = <<>>

Goto(t, to) == pc' = [pc EXCEPT ![t] = to]

\* self.save_to_parquet() called by thread t, continuing at r afterwards
CallSave(t, r) ==
    /\ pc' = [pc EXCEPT ![t] = "sv_lock"]
    /\ ret' = [ret EXCEPT ![t] = r]

ReturnFromSave(t) ==
    /\ pc' = [pc EXCEPT ![t] = ret[t]]
    /\ ret' = [ret EXCEPT ![t] = "none"]
    /\ current_data' = [current_data EXCEPT ![t] = <<>>]
    /\ combined_df' = [combined_df EXCEPT ![t] = <<>>]

\* ---------------------------------------------------------------- main thread

\* start_streaming: creates the WebSocketApp and starts both daemon threads
start_streaming ==
    /\ pc["main"] = "m_start"
    /\ pc' = [pc EXCEPT !["main"] = "m_loop",
                        !["ws"] = "ws_connect",
                        !["saver"] = "ps_while"]
    /\ UNCHANGED <<ret, buffer_lock, current_second_data, is_connected,
                   trade_count, last_save_time, now, ws_closed, trade,
                   current_time, wake, current_data, combined_df, parquet,
                   nmsgs, msg_errors, failures, received, taken, overlap,
                   flushed, nonFetcherVars>>

\* the main loop is interrupted (except KeyboardInterrupt) and stop_streaming
\* begins: self.ws.close()
stop_streaming ==
    /\ pc["main"] = "m_loop"
    /\ ws_closed' = TRUE
    /\ Goto("main", "m_join")
    /\ UNCHANGED <<ret, buffer_lock, current_second_data, is_connected,
                   trade_count, last_save_time, now, trade,
                   current_time, wake, current_data, combined_df, parquet,
                   nmsgs, msg_errors, failures, received, taken, overlap,
                   flushed, nonFetcherVars>>

\* a stop_streaming that does not wait for the websocket thread
stop_no_join ==
    /\ pc["main"] = "m_join"
    /\ CallSave("main", "m_done")
    /\ UNCHANGED <<buffer_lock, current_second_data, is_connected,
                   trade_count, last_save_time, now, ws_closed, trade,
                   current_time, wake, current_data, combined_df, parquet,
                   nmsgs, msg_errors, failures, received, taken, overlap,
                   flushed, nonFetcherVars>>

\* stop_streaming: self.ws_thread.join(), then the final save_to_parquet()
stop_join ==
    /\ pc["main"] = "m_join"
    /\ pc["ws"] = "ws_done"
    /\ CallSave("main", "m_done")
    /\ UNCHANGED <<buffer_lock, current_second_data, is_connected,
                   trade_count, last_save_time, now, ws_closed, trade,
                   current_time, wake, current_data, combined_df, parquet,
                   nmsgs, msg_errors, failures, received, taken, overlap,
                   flushed, nonFetcherVars>>

\* ----------------------------------------------------------- websocket thread

\* run_forever connects and calls on_open
on_open ==
    /\ pc["ws"] = "ws_connect"
    /\ ~ws_closed
    /\ is_connected' = TRUE
    /\ Goto("ws", "ws_loop")
    /\ UNCHANGED <<ret, buffer_lock, current_second_data,
                   trade_count, last_save_time, now, ws_closed, trade,
                   current_time, wake, current_data, combined_df, parquet,
                   nmsgs, msg_errors, failures, received, taken, overlap,
                   flushed, nonFetcherVars>>

\* run_forever cannot connect: on_error, then on_close
connect_fails ==
    /\ pc["ws"] = "ws_connect"
    /\ Goto("ws", "on_close")
    /\ UNCHANGED <<ret, buffer_lock, current_second_data, is_connected,
                   trade_count, last_save_time, now, ws_closed, trade,
                   current_time, wake, current_data, combined_df, parquet,
                   nmsgs, msg_errors, failures, received, taken, overlap,
                   flushed, nonFetcherVars>>

\* an on_message that appends the trade as soon as E and p are read
on_message_append_early(m) ==
    /\ pc["ws"] = "ws_loop"
    /\ ~ws_closed
    /\ nmsgs < MaxMsgs
    /\ nmsgs' = nmsgs + 1
    /\ IF Parses(m)
       THEN /\ trade' = ParsedTrade(m)
            /\ Goto("ws", "om_lock")
            /\ UNCHANGED <<msg_errors, current_second_data, received>>
       ELSE /\ msg_errors' = msg_errors + 1
            /\ IF m.json /\ {"E", "p"} \subseteq DOMAIN m.data
               THEN LET d == [timestamp |-> m.data.E, price |-> m.data.p,
                              volume |-> 0]
                    IN  /\ current_second_data' = Append(current_second_data, d)
                        /\ received' = Append(received, d)
               ELSE UNCHANGED <<current_second_data, received>>
            /\ UNCHANGED <<pc, trade>>
    /\ UNCHANGED <<ret, buffer_lock, is_connected,
                   trade_count, last_save_time, now, ws_closed,
                   current_time, wake, current_data, combined_df, parquet,
                   failures, taken, overlap,
                   flushed, nonFetcherVars>>

\* on_message, lines 43-48 and the except clause: parse the message
on_message(m) ==
    /\ pc["ws"] = "ws_loop"
    /\ ~ws_closed
    /\ nmsgs < MaxMsgs
    /\ nmsgs' = nmsgs + 1
    /\ IF Parses(m)
       THEN /\ trade' = ParsedTrade(m)
            /\ Goto("ws", "om_lock")
            /\ UNCHANGED msg_errors
       ELSE /\ msg_errors' = msg_errors + 1
            /\ UNCHANGED <<pc, trade>>
    /\ UNCHANGED <<ret, buffer_lock, current_second_data, is_connected,
                   trade_count, last_save_time, now, ws_closed,
                   current_time, wake, current_data, combined_df, parquet,
                   failures, received, taken, overlap,
                   flushed, nonFetcherVars>>

\* an on_message that appends without taking the lock
on_message_no_lock ==
    /\ pc["ws"] = "om_lock"
    /\ Goto("ws", "om_append")
    /\ UNCHANGED <<ret, buffer_lock, current_second_data, is_connected,
                   trade_count, last_save_time, now, ws_closed, trade,
                   current_time, wake, current_data, combined_df, parquet,
                   nmsgs, msg_errors, failures, received, taken, overlap,
                   flushed, nonFetcherVars>>

\* on_message: with self.buffer_lock (acquire)
on_message_lock ==
    /\ pc["ws"] = "om_lock"
    /\ buffer_lock = "none"
    /\ buffer_lock' = "ws"
    /\ Goto("ws", "om_append")
    /\ UNCHANGED <<ret, current_second_data, is_connected,
                   trade_count, last_save_time, now, ws_closed, trade,
                   current_time, wake, current_data, combined_df, parquet,
                   nmsgs, msg_errors, failures, received, taken, overlap,
                   flushed, nonFetcherVars>>

\* on_message: the append, and the end of the with block (release)
on_message_append ==
    /\ pc["ws"] = "om_append"
    /\ current_second_data' = Append(current_second_data, trade)
    /\ received' = Append(received, trade)
    /\ buffer_lock' = "none"
    /\ Goto("ws", "om_count")
    /\ UNCHANGED <<ret, is_connected,
                   trade_count, last_save_time, now, ws_closed, trade,
                   current_time, wake, current_data, combined_df, parquet,
                   nmsgs, msg_errors, failures, taken, overlap,
                   flushed, nonFetcherVars>>

\* on_message: trade_count += 1 and the check whether to save
on_message_count ==
    /\ pc["ws"] = "om_count"
    /\ trade_count' = trade_count + 1
    /\ trade' = NoTrade
    /\ IF now - last_save_time >= save_interval
       THEN /\ current_time' = [current_time EXCEPT !["ws"] = now]
            /\ CallSave("ws", "om_set")
       ELSE /\ Goto("ws", "ws_loop")
            /\ UNCHANGED <<ret, current_time>>
    /\ UNCHANGED <<buffer_lock, current_second_data, is_connected,
                   last_save_time, now, ws_closed,
                   wake, current_data, combined_df, parquet,
                   nmsgs, msg_errors, failures, received, taken, overlap,
                   flushed, nonFetcherVars>>

\* on_message: self.last_save_time = current_time
on_message_set ==
    /\ pc["ws"] = "om_set"
    /\ last_save_time' = current_time["ws"]
    /\ current_time' = [current_time EXCEPT !["ws"] = 0]
    /\ Goto("ws", "ws_loop")
    /\ UNCHANGED <<ret, buffer_lock, current_second_data, is_connected,
                   trade_count, now, ws_closed, trade,
                   wake, current_data, combined_df, parquet,
                   nmsgs, msg_errors, failures, received, taken, overlap,
                   flushed, nonFetcherVars>>

\* the connection ends (closed by the server or by self.ws.close())
connection_closes ==
    /\ pc["ws"] = "ws_loop"
    /\ Goto("ws", "on_close")
    /\ UNCHANGED <<ret, buffer_lock, current_second_data, is_connected,
                   trade_count, last_save_time, now, ws_closed, trade,
                   current_time, wake, current_data, combined_df, parquet,
                   nmsgs, msg_errors, failures, received, taken, overlap,
                   flushed, nonFetcherVars>>

\* on_close: is_connected = False, save_to_parquet(); run_forever returns
on_close ==
    /\ pc["ws"] = "on_close"
    /\ is_connected' = FALSE
    /\ CallSave("ws", "ws_done")
    /\ UNCHANGED <<buffer_lock, current_second_data,
                   trade_count, last_save_time, now, ws_closed, trade,
                   current_time, wake, current_data, combined_df, parquet,
                   nmsgs, msg_errors, failures, received, taken, overlap,
                   flushed, nonFetcherVars>>

\* ------------------------------------------------------ periodic save thread

\* periodic_save: while self.is_connected
periodic_save_while ==
    /\ pc["saver"] = "ps_while"
    /\ IF is_connected
       THEN Goto("saver", "ps_sleep") /\ wake' = now + save_interval
       ELSE Goto("saver", "ps_done") /\ UNCHANGED wake
    /\ UNCHANGED <<ret, buffer_lock, current_second_data, is_connected,
                   trade_count, last_save_time, now, ws_closed, trade,
                   current_time, current_data, combined_df, parquet,
                   nmsgs, msg_errors, failures, received, taken, overlap,
                   flushed, nonFetcherVars>>

\* periodic_save: time.sleep returns; the check whether to save
periodic_save_wake ==
    /\ pc["saver"] = "ps_sleep"
    /\ now >= wake
    /\ wake' = 0
    /\ IF now - last_save_time >= save_interval
       THEN /\ current_time' = [current_time EXCEPT !["saver"] = now]
            /\ CallSave("saver", "ps_set")
       ELSE /\ Goto("saver", "ps_while")
            /\ UNCHANGED <<ret, current_time>>
    /\ UNCHANGED <<buffer_lock, current_second_data, is_connected,
                   trade_count, last_save_time, now, ws_closed, trade,
                   current_data, combined_df, parquet,
                   nmsgs, msg_errors, failures, received, taken, overlap,
                   flushed, nonFetcherVars>>

\* periodic_save: self.last_save_time = current_time
periodic_save_set ==
    /\ pc["saver"] = "ps_set"
    /\ last_save_time' = current_time["saver"]
    /\ current_time' = [current_time EXCEPT !["saver"] = 0]
    /\ Goto("saver", "ps_while")
    /\ UNCHANGED <<ret, buffer_lock, current_second_data, is_connected,
                   trade_count, now, ws_closed, trade,
                   wake, current_data, combined_df, parquet,
                   nmsgs, msg_errors, failures, received, taken, overlap,
                   flushed, nonFetcherVars>>

\* ------------------------------------------------------------ save_to_parquet

\* a save_to_parquet that copies and clears without taking the lock
save_no_lock(t) ==
    /\ pc[t] = "sv_lock"
    /\ Goto(t, "sv_copy")
    /\ UNCHANGED <<ret, buffer_lock, current_second_data, is_connected,
                   trade_count, last_save_time, now, ws_closed, trade,
                   current_time, wake, current_data, combined_df, parquet,
                   nmsgs, msg_errors, failures, received, taken, overlap,
                   flushed, nonFetcherVars>>

\* with self.buffer_lock (acquire)
save_lock(t) ==
    /\ pc[t] = "sv_lock"
    /\ buffer_lock = "none"
    /\ buffer_lock' = t
    /\ Goto(t, "sv_copy")
    /\ UNCHANGED <<ret, current_second_data, is_connected,
                   trade_count, last_save_time, now, ws_closed, trade,
                   current_time, wake, current_data, combined_df, parquet,
                   nmsgs, msg_errors, failures, received, taken, overlap,
                   flushed, nonFetcherVars>>

\* current_data = self.current_second_data.copy()
save_copy(t) ==
    /\ pc[t] = "sv_copy"
    /\ current_data' = [current_data EXCEPT ![t] = current_second_data]
    /\ taken' = taken + Len(current_second_data)
    /\ Goto(t, "sv_clear")
    /\ UNCHANGED <<ret, buffer_lock, current_second_data, is_connected,
                   trade_count, last_save_time, now, ws_closed, trade,
                   current_time, wake, combined_df, parquet,
                   nmsgs, msg_errors, failures, received, overlap,
                   flushed, nonFetcherVars>>

\* self.current_second_data = [], the release, and "if current_data:"
save_clear(t) ==
    /\ pc[t] = "sv_clear"
    /\ current_second_data' = <<>>
    /\ buffer_lock' = "none"
    /\ flushed' = flushed \o current_data[t]
    /\ IF current_data[t] = <<>>
       THEN ReturnFromSave(t) /\ UNCHANGED overlap
       ELSE /\ Goto(t, "sv_read")
            /\ overlap' = (overlap \/ \E u \in Threads \ {t} :
                                         pc[u] \in {"sv_read", "sv_write"})
            /\ UNCHANGED <<ret, current_data, combined_df>>
    /\ UNCHANGED <<is_connected,
                   trade_count, last_save_time, now, ws_closed, trade,
                   current_time, wake, parquet,
                   nmsgs, msg_errors, failures, received, taken,
                   nonFetcherVars>>

\* lines 77-92: aggregate, read the existing file if any, and merge
save_read(t) ==
    /\ pc[t] = "sv_read"
    /\ LET agg_df == aggregate_second_data(current_data[t])
       IN  combined_df' = [combined_df EXCEPT ![t] =
               IF parquet.exists THEN Combine(parquet.rows, agg_df)
                                 ELSE agg_df]
    /\ Goto(t, "sv_write")
    /\ UNCHANGED <<ret, buffer_lock, current_second_data, is_connected,
                   trade_count, last_save_time, now, ws_closed, trade,
                   current_time, wake, current_data, parquet,
                   nmsgs, msg_errors, failures, received, taken, overlap,
                   flushed, nonFetcherVars>>

\* line 94: combined_df.to_parquet(parquet_path), then return
save_write(t) ==
    /\ pc[t] = "sv_write"
    /\ parquet' = [exists |-> TRUE, rows |-> combined_df[t]]
    /\ ReturnFromSave(t)
    /\ UNCHANGED <<buffer_lock, current_second_data, is_connected,
                   trade_count, last_save_time, now, ws_closed, trade,
                   current_time, wake,
                   nmsgs, msg_errors, failures, received, taken, overlap,
                   flushed, nonFetcherVars>>

\* an except clause that puts the batch back into the buffer
save_fails_requeue(t) ==
    /\ pc[t] \in {"sv_read", "sv_write"}
    /\ failures < MaxFailures
    /\ failures' = failures + 1
    /\ current_second_data' = current_data[t] \o current_second_data
    /\ ReturnFromSave(t)
    /\ UNCHANGED <<buffer_lock, is_connected,
                   trade_count, last_save_time, now, ws_closed, trade,
                   current_time, wake, parquet,
                   nmsgs, msg_errors, received, taken, overlap,
                   flushed, nonFetcherVars>>

\* lines 98-99: reading, merging or writing raises; the except clause prints
\* and save_to_parquet returns
save_fails(t) ==
    /\ pc[t] \in {"sv_read", "sv_write"}
    /\ failures < MaxFailures
    /\ failures' = failures + 1
    /\ ReturnFromSave(t)
    /\ UNCHANGED <<buffer_lock, current_second_data, is_connected,
                   trade_count, last_save_time, now, ws_closed, trade,
                   current_time, wake, parquet,
                   nmsgs, msg_errors, received, taken, overlap,
                   flushed, nonFetcherVars>>

\* ----------------------------------------------------------------------- time

Tick ==
    /\ now < MaxTime
    /\ now' = now + 1
    /\ UNCHANGED <<pc, ret, buffer_lock, current_second_data, is_connected,
                   trade_count, last_save_time, ws_closed, trade,
                   current_time, wake, current_data, combined_df, parquet,
                   nmsgs, msg_errors, failures, received, taken, overlap,
                   flushed, nonFetcherVars>>

NextFetcher ==
    \/ start_streaming
    \/ stop_streaming
    \/ stop_join
    \/ on_open
    \/ connect_fails
    \/ \E m \in Messages : on_message(m)
    \/ on_message_lock
    \/ on_message_append
    \/ on_message_count
    \/ on_message_set
    \/ connection_closes
    \/ on_close
    \/ periodic_save_while
    \/ periodic_save_wake
    \/ periodic_save_set
    \/ \E t \in Threads : save_lock(t)
    \/ \E t \in Threads : save_copy(t)
    \/ \E t \in Threads : save_clear(t)
    \/ \E t \in Threads : save_read(t)
    \/ \E t \in Threads : save_write(t)
    \/ \E t \in Threads : save_fails(t)
    \/ Tick

(***************************************************************************)
(* aggregator_scripts/backtesting_results.py: backtest_strategy            *)
(***************************************************************************)
initial_capital == 100000

\* The rows of df that the loop reads: avg_price and the signal column.
\* A signal column is an integer column's diff(): NaN in the first row and
\* a whole number in every later row.
AvgPrices == {1, 2, 3}
SignalValues == {-2, -1, 0, 1, 2}

NaN == [isna |-> TRUE, value |-> 0]
Signal(v) == [isna |-> FALSE, value |-> v]

NoResult == [win_rate |-> RInt(0), total_trades |-> 0, max_dd |-> RInt(0),
             final_return |-> RInt(0)]

InitBacktest ==
    /\ bt_pc = "loop"
    /\ idx = 0
    /\ position = RInt(0)
    /\ capital = RInt(initial_capital)
    /\ entry_price = RInt(0)
    /\ trades = <<>>
    /\ equity_curve = <<RInt(initial_capital)>>
    /\ result = NoResult

\* one iteration of "for idx, row in df.iterrows()", lines 69-98
backtest_row(avg_price, signal) ==
    /\ bt_pc = "loop"
    /\ idx < MaxRows
    /\ idx' = idx + 1
    /\ LET price == RInt(avg_price)
       IN  IF signal.isna
           THEN /\ equity_curve' =
                       Append(equity_curve, equity_curve[Len(equity_curve)])
                /\ UNCHANGED <<position, capital, entry_price, trades>>
           ELSE IF signal.value = 1 /\ position = RInt(0)
           THEN /\ position' = RDiv(capital, price)
                /\ entry_price' = price
                /\ capital' = RInt(0)
                /\ trades' = Append(trades, [type |-> "buy", price |-> price,
                                             date |-> idx + 1])
                /\ equity_curve' = Append(equity_curve,
                       RAdd(capital', RMul(position', price)))
           ELSE IF signal.value = -1 /\ RLess(RInt(0), position)
           THEN /\ capital' = RMul(position, price)
                /\ trades' = Append(trades,
                       [type |-> "sell", price |-> price, date |-> idx + 1,
                        return |-> RMul(RDiv(RSub(price, entry_price),
                                             entry_price), RInt(100))])
                /\ position' = RInt(0)
                /\ equity_curve' = Append(equity_curve,
                       RAdd(capital', RMul(position', price)))
                /\ UNCHANGED entry_price
           ELSE /\ equity_curve' = Append(equity_curve,
                       RAdd(capital, RMul(position, price)))
                /\ UNCHANGED <<position, capital, entry_price, trades>>
    /\ UNCHANGED <<bt_pc, result>>
    /\ UNCHANGED nonBacktestVars

\* t.get('return', 0)
GetReturn(t) == IF "return" \in DOMAIN t THEN t["return"] ELSE RInt(0)

\* sum(1 for t in trades if t.get('return', 0) > 0)
WinningTrades(ts) ==
    Cardinality({i \in 1..Len(ts) : RLess(RInt(0), GetReturn(ts[i]))})

\* a count that takes every trade record for a completed trade
TotalTradesAllRecords(ts) == Len(ts)

\* len(trades) // 2
TotalTrades(ts) == Len(ts) \div 2

\* a peak that is never raised above the seed
DrawdownPeakSeedOnly(peak, value) == peak

\* if value > peak: peak = value
DrawdownPeak(peak, value) == IF RLess(peak, value) THEN value ELSE peak

\* the loop of lines 110-114 over the remaining entries of the curve
RECURSIVE DrawdownLoop(_, _, _)
DrawdownLoop(peak, max_dd, curve) ==
    IF curve = <<>> THEN max_dd
    ELSE LET value == Head(curve)
             newpeak == DrawdownPeak(peak, value)
             dd == RMul(RDiv(RSub(newpeak, value), newpeak), RInt(100))
         IN  DrawdownLoop(newpeak, RMax(max_dd, dd), Tail(curve))

\* lines 108-114: peak seeded with equity_curve[0], then every entry visited
MaxDrawdown(curve) == DrawdownLoop(curve[1], RInt(0), curve)

\* lines 100-125: the metrics and the return; win_rate divides by
\* len(trades) // 2, which raises ZeroDivisionError when that is 0
backtest_metrics ==
    /\ bt_pc = "loop"
    /\ IF trades # <<>> /\ TotalTrades(trades) = 0
       THEN /\ bt_pc' = "raised"
            /\ UNCHANGED result
       ELSE /\ bt_pc' = "returned"
            /\ result' =
                 [win_rate |->
                     IF trades # <<>>
                     THEN RMul(Rat(WinningTrades(trades), TotalTrades(trades)),
                               RInt(100))
                     ELSE RInt(0),
                  total_trades |-> TotalTrades(trades),
                  max_dd |-> MaxDrawdown(equity_curve),
                  final_return |->
                     RMul(RDiv(RSub(equity_curve[Len(equity_curve)],
                                    RInt(initial_capital)),
                               RInt(initial_capital)), RInt(100))]
    /\ UNCHANGED <<idx, position, capital, entry_price, trades, equity_curve>>
    /\ UNCHANGED nonBacktestVars

NextBacktest ==
    \/ \E p \in AvgPrices :
          \/ idx = 0 /\ backtest_row(p, NaN)
          \/ idx > 0 /\ \E v \in SignalValues : backtest_row(p, Signal(v))
    \/ backtest_metrics

(***************************************************************************)
(* aggregator_scripts/import_hist.py: download_binance_data                *)
(***************************************************************************)
Symbols == {"BTCUSDT", "ETHUSDT"}
DateStrs == {"2024-01-01", "2024-01-02"}

\* f"{symbol}-aggTrades-{date_str}.zip"
FileName(symbol, date_str) ==
    [symbol |-> symbol, date |-> date_str, ext |-> ".zip"]

\* file_name.replace('.zip', '.csv')
ReplaceZipByCsv(file_name) ==
    [file_name EXCEPT !.ext = IF @ = ".zip" THEN ".csv" ELSE @]

CsvNames == {[symbol |-> sy, date |-> d, ext |-> ".csv"] :
                sy \in Symbols, d \in DateStrs}

\* response bodies: bytes that are no zip archive, or an archive with members
Bodies ==
    {[iszip |-> FALSE, members |-> {}]} \cup
    {[iszip |-> TRUE, members |-> ms] : ms \in SUBSET CsvNames}

StatusCodes == {200, 404, 500}

NoResponse == [status_code |-> 0, content |-> [iszip |-> FALSE, members |-> {}]]

\* the exceptions requests raises are subclasses of RequestException;
\* zipfile.BadZipFile and KeyError are not
RequestExceptions == {"ConnectionError", "Timeout", "HTTPError"}

NoArgs == [symbol |-> "", date_str |-> ""]

InitDownload ==
    /\ dl_pc = "idle"
    /\ dl_args = NoArgs
    /\ response = NoResponse
    /\ dl_exc = "none"
    /\ dl_result = "pending"

\* lines 34-36: except requests.exceptions.RequestException prints and
\* returns None; any other exception leaves the function
Except(exc) ==
    /\ dl_pc' = "done"
    /\ dl_exc' = exc
    /\ dl_result' = IF exc \in RequestExceptions THEN "None" ELSE "raised"

\* the call download_binance_data(symbol, date_str), lines 7-11
download_binance_data(symbol, date_str) ==
    /\ dl_pc = "idle"
    /\ dl_args' = [symbol |-> symbol, date_str |-> date_str]
    /\ dl_pc' = "get"
    /\ UNCHANGED <<response, dl_exc, dl_result>>
    /\ UNCHANGED nonDownloadVars

\* line 15: requests.get(url) returns a response
get_responds(status_code, content) ==
    /\ dl_pc = "get"
    /\ response' = [status_code |-> status_code, content |-> content]
    /\ dl_pc' = "status"
    /\ UNCHANGED <<dl_args, dl_exc, dl_result>>
    /\ UNCHANGED nonDownloadVars

\* line 15: requests.get(url) raises (no connection, timeout)
get_raises(exc) ==
    /\ dl_pc = "get"
    /\ Except(exc)
    /\ UNCHANGED <<dl_args, response>>
    /\ UNCHANGED nonDownloadVars

\* line 16: response.raise_for_status()
raise_for_status ==
    /\ dl_pc = "status"
    /\ IF response.status_code >= 400
       THEN Except("HTTPError")
       ELSE dl_pc' = "zip" /\ UNCHANGED <<dl_exc, dl_result>>
    /\ UNCHANGED <<dl_args, response>>
    /\ UNCHANGED nonDownloadVars

\* line 19: zipfile.ZipFile(io.BytesIO(response.content))
open_zip ==
    /\ dl_pc = "zip"
    /\ IF response.content.iszip
       THEN dl_pc' = "member" /\ UNCHANGED <<dl_exc, dl_result>>
       ELSE Except("BadZipFile")
    /\ UNCHANGED <<dl_args, response>>
    /\ UNCHANGED nonDownloadVars

\* lines 21-32: zip_file.open(csv_filename), read_csv, return df
open_member ==
    /\ dl_pc = "member"
    /\ LET csv_filename ==
               ReplaceZipByCsv(FileName(dl_args.symbol, dl_args.date_str))
       IN  IF csv_filename \in response.content.members
           THEN /\ dl_pc' = "done"
                /\ dl_result' = "DataFrame"
                /\ UNCHANGED dl_exc
           ELSE Except("KeyError")
    /\ UNCHANGED <<dl_args, response>>
    /\ UNCHANGED nonDownloadVars

NextDownload ==
    \/ \E sy \in Symbols, d \in DateStrs : download_binance_data(sy, d)
    \/ \E st \in StatusCodes, b \in Bodies : get_responds(st, b)
    \/ \E e \in {"ConnectionError", "Timeout"} : get_raises(e)
    \/ raise_for_status
    \/ open_zip
    \/ open_member

(***************************************************************************)
(* aggregator_scripts/script.py: process_trade_files.                      *)
(* A datetime is a number of half days: 2 * day + (1 if noon else 0).      *)
(***************************************************************************)
OneDay == 2
Datetimes == 0..(OneDay * MaxDay + 1)

\* what strftime("%Y-%m-%d") keeps of a datetime: its calendar day
DateStr(d) == d \div OneDay

\* a timestamp cell that pd.to_datetime(unit='ms') rejects
BadStamp == -1

TradeRow(p, q, ts, m) ==
    [price |-> p, quantity |-> q, timestamp |-> ts, is_buyer_maker |-> m]

\* The file of one day: absent, empty, with a bad cell, or with trades.
NoCsv == [exists |-> FALSE, rows |-> <<>>]
DayFiles ==
    { NoCsv,
      [exists |-> TRUE, rows |-> <<>>],
      [exists |-> TRUE, rows |-> <<TradeRow(1, 1, BadStamp, TRUE)>>],
      [exists |-> TRUE, rows |-> <<TradeRow(1, 2, 1999, TRUE),
                                   TradeRow(3, 1, 1000, FALSE)>>],
      [exists |-> TRUE, rows |-> <<TradeRow(2, 1, 2000, TRUE),
                                   TradeRow(2, 3, 0, FALSE)>>] }

\* read_csv raises on an empty file, to_datetime on a bad cell
ReadRaises(file) ==
    \/ file.rows = <<>>
    \/ \E i \in 1..Len(file.rows) : file.rows[i].timestamp = BadStamp

RECURSIVE SumQuantity(_)
SumQuantity(s) ==
    IF s = <<>> THEN 0 ELSE Head(s).quantity + SumQuantity(Tail(s))

\* groupby('date_second').agg(...), the renaming and sell_trades
AggregateDay(rows) ==
    LET secs == SortedSeq({FloorS(rows[i].timestamp) : i \in 1..Len(rows)})
    IN  [k \in 1..Len(secs) |->
            LET g == InSecond(rows, secs[k])
                buys == Len(SelectSeq(g, LAMBDA r : r.is_buyer_maker))
            IN  [datetime |-> secs[k],
                 trade_count |-> Len(g),
                 volume |-> SumQuantity(g),
                 avg_price |-> Rat(SumPrice(g), Len(g)),
                 buy_trades |-> buys,
                 sell_trades |-> Len(g) - buys]]

\* pd.concat(all_data, ignore_index=True)
RECURSIVE Concat(_)
Concat(dfs) == IF dfs = <<>> THEN <<>> ELSE Head(dfs) \o Concat(Tail(dfs))

RECURSIVE InsertByDatetime(_, _)
InsertByDatetime(r, sorted) ==
    IF sorted = <<>> THEN <<r>>
    ELSE IF r.datetime < Head(sorted).datetime
         THEN <<r>> \o sorted
         ELSE <<Head(sorted)>> \o InsertByDatetime(r, Tail(sorted))

\* final_df.sort_values('datetime')
RECURSIVE SortByDatetime(_)
SortByDatetime(rows) ==
    IF rows = <<>> THEN <<>>
    ELSE InsertByDatetime(rows[Len(rows)],
                          SortByDatetime(SubSeq(rows, 1, Len(rows) - 1)))

InitScript ==
    /\ pt_pc = "idle"
    /\ start_date = 0
    /\ end_date = 0
    /\ current_date = 0
    /\ all_data = <<>>
    /\ output = NoFile
    /\ printed = <<>>
    /\ visited = <<>>

\* lines 6-13: the call, all_data = [] and current_date = start_date
process_trade_files(s, e) ==
    /\ pt_pc = "idle"
    /\ start_date' = s
    /\ end_date' = e
    /\ current_date' = s
    /\ all_data' = <<>>
    /\ pt_pc' = "loop"
    /\ UNCHANGED <<output, printed, visited, nonScriptVars>>

\* a while condition that leaves the last day out
WhileBeforeEnd(cur, e) == cur < e

\* line 14: while current_date <= end_date
WhileCondition(cur, e) == cur <= e

\* a loop body whose except clause ends the loop
process_day_break(file) ==
    /\ pt_pc = "loop"
    /\ WhileCondition(current_date, end_date)
    /\ visited' = Append(visited, [date |-> current_date, file |-> file])
    /\ IF file.exists /\ ReadRaises(file)
       THEN /\ printed' = printed \o <<<<"Processing", DateStr(current_date)>>,
                                       <<"Error", DateStr(current_date)>>>>
            /\ current_date' = end_date + OneDay
            /\ UNCHANGED all_data
       ELSE /\ current_date' = current_date + OneDay
            /\ IF file.exists
               THEN /\ all_data' = Append(all_data, AggregateDay(file.rows))
                    /\ printed' = Append(printed,
                                    <<"Processing", DateStr(current_date)>>)
               ELSE /\ printed' = Append(printed,
                                    <<"Warning", DateStr(current_date)>>)
                    /\ UNCHANGED all_data
    /\ UNCHANGED <<pt_pc, start_date, end_date, output, nonScriptVars>>

\* lines 14-64: one iteration of the loop, for the file found on that day
process_day(file) ==
    /\ pt_pc = "loop"
    /\ WhileCondition(current_date, end_date)
    /\ visited' = Append(visited, [date |-> current_date, file |-> file])
    /\ IF file.exists
       THEN IF ReadRaises(file)
            THEN /\ printed' = printed \o
                                 <<<<"Processing", DateStr(current_date)>>,
                                   <<"Error", DateStr(current_date)>>>>
                 /\ UNCHANGED all_data
            ELSE /\ printed' = Append(printed,
                                      <<"Processing", DateStr(current_date)>>)
                 /\ all_data' = Append(all_data, AggregateDay(file.rows))
       ELSE /\ printed' = Append(printed, <<"Warning", DateStr(current_date)>>)
            /\ UNCHANGED all_data
    /\ current_date' = current_date + OneDay
    /\ UNCHANGED <<pt_pc, start_date, end_date, output, nonScriptVars>>

\* lines 66-94: after the loop, write the output or print that none was
\* processed
write_output ==
    /\ pt_pc = "loop"
    /\ ~WhileCondition(current_date, end_date)
    /\ IF all_data # <<>>
       THEN /\ output' = [exists |-> TRUE,
                          rows |-> SortByDatetime(Concat(all_data))]
            /\ UNCHANGED printed
       ELSE /\ printed' = Append(printed, <<"No data was processed!", 0>>)
            /\ UNCHANGED output
    /\ pt_pc' = "done"
    /\ UNCHANGED <<start_date, end_date, current_date, all_data, visited,
                   nonScriptVars>>

NextScript ==
    \/ \E s \in Datetimes, e \in Datetimes : process_trade_files(s, e)
    \/ \E file \in DayFiles : process_day(file)
    \/ write_output

(***************************************************************************)
(* simulator.py and page.py: get_current_price and class TradingBot.       *)
(* The 'timestamp' of a transaction is left out of the records.            *)
(***************************************************************************)
\* Python's None, where a float is expected
None == <<0, 0>>

initial_balance == 100000

\* what the request for the BTC price comes back with
PriceResponses ==
    { [failure |-> "ConnectionError", price |-> 0],
      [failure |-> "HTTPError", price |-> 0],
      [failure |-> "none", price |-> 1],
      [failure |-> "none", price |-> 2] }

\* get_current_price: the float of data['price'], or None after a
\* RequestException of requests.get or raise_for_status
get_current_price(resp) ==
    IF resp.failure # "none" THEN None ELSE RInt(resp.price)

TradingBot(balance) ==
    [current_balance |-> RInt(balance),
     current_position |-> RInt(0),
     entry_price |-> None,
     transactions |-> <<>>]

\* simulator.py, TradingBot.buy
SimBuy(b, price, amount) ==
    LET quantity == RDiv(amount, price)
    IN  [current_balance |-> RSub(b.current_balance, amount),
         current_position |-> RAdd(b.current_position, quantity),
         entry_price |-> price,
         transactions |-> Append(b.transactions,
             [type |-> "buy", quantity |-> quantity, price |-> price,
              entry_price |-> price])]

\* a sell that resets the position before it records the transaction
SimSellResetFirst(b, price) ==
    LET sale_amount == RMul(b.current_position, price)
    IN  [current_balance |-> RAdd(b.current_balance, sale_amount),
         current_position |-> RInt(0),
         entry_price |-> b.entry_price,
         transactions |-> Append(b.transactions,
             [type |-> "sell", quantity |-> RInt(0), price |-> price,
              entry_price |-> b.entry_price])]

\* simulator.py, TradingBot.sell
SimSell(b, price) ==
    LET sale_amount == RMul(b.current_position, price)
    IN  [current_balance |-> RAdd(b.current_balance, sale_amount),
         current_position |-> RInt(0),
         entry_price |-> b.entry_price,
         transactions |-> Append(b.transactions,
             [type |-> "sell", quantity |-> b.current_position,
              price |-> price, entry_price |-> b.entry_price])]

\* page.py, TradingBot.buy
PageBuy(b, price, amount) ==
    LET quantity == RDiv(amount, price)
    IN  [current_balance |-> RSub(b.current_balance, amount),
         current_position |-> RAdd(b.current_position, quantity),
         entry_price |-> price,
         transactions |-> Append(b.transactions,
             [type |-> "buy", quantity |-> quantity, price |-> price])]

\* page.py, TradingBot.sell: current_position is set to 0 (line 184)
\* before the transaction reads it (line 187)
PageSell(b, price) ==
    LET sale_amount == RMul(b.current_position, price)
        position_after == RInt(0)
    IN  [current_balance |-> RAdd(b.current_balance, sale_amount),
         current_position |-> position_after,
         entry_price |-> b.entry_price,
         transactions |-> Append(b.transactions,
             [type |-> "sell", quantity |-> position_after,
              price |-> price])]

\* TradingBot.get_portfolio, given what get_current_price returns:
\* the product with None raises TypeError
GetPortfolio(b, current_price) ==
    IF RLess(RInt(0), b.current_position)
    THEN IF current_price = None
         THEN [status |-> "TypeError", value |-> None]
         ELSE [status |-> "returned",
               value |-> RAdd(b.current_balance,
                              RMul(b.current_position, current_price))]
    ELSE [status |-> "returned", value |-> b.current_balance]

BotPrices == {RInt(1), RInt(2)}
InvestmentPercentages == {50, 100}

\* investment_amount = (investment_percentage / 100) * initial_balance
InvestmentAmount(pct) == RMul(Rat(pct, 100), RInt(initial_balance))

InitBot ==
    /\ sim_bot = TradingBot(initial_balance)
    /\ page_bot = TradingBot(initial_balance)
    /\ ncalls = 0
    /\ fetched = None
    /\ portfolio = [status |-> "none", value |-> None]

\* bot.buy(price, investment_amount) on both bots
bot_buy(price, amount) ==
    /\ ncalls < MaxCalls
    /\ ncalls' = ncalls + 1
    /\ sim_bot' = SimBuy(sim_bot, price, amount)
    /\ page_bot' = PageBuy(page_bot, price, amount)
    /\ UNCHANGED <<fetched, portfolio, nonBotVars>>

\* bot.sell(price) on both bots
bot_sell(price) ==
    /\ ncalls < MaxCalls
    /\ ncalls' = ncalls + 1
    /\ sim_bot' = SimSell(sim_bot, price)
    /\ page_bot' = PageSell(page_bot, price)
    /\ UNCHANGED <<fetched, portfolio, nonBotVars>>

\* bot.get_portfolio(), with the response its price request gets
bot_get_portfolio(resp) ==
    /\ ncalls < MaxCalls
    /\ ncalls' = ncalls + 1
    /\ fetched' = IF RLess(RInt(0), sim_bot.current_position)
                  THEN get_current_price(resp) ELSE None
    /\ portfolio' = GetPortfolio(sim_bot, get_current_price(resp))
    /\ UNCHANGED <<sim_bot, page_bot, nonBotVars>>

NextBot ==
    \/ \E price \in BotPrices, pct \in InvestmentPercentages :
          bot_buy(price, InvestmentAmount(pct))
    \/ \E price \in BotPrices : bot_sell(price)
    \/ \E resp \in PriceResponses : bot_get_portfolio(resp)

(***************************************************************************)
(* simulator.py: relative_strength_index and RSIStrategy.                  *)
(***************************************************************************)
rsi_period == 14

\* the truth value Python gives a float or None
Truthy(x) == x # None /\ x[1] # 0

\* lines 32-37: gains (up = TRUE) or losses summed over the last changes
RECURSIVE SumChanges(_, _, _)
SumChanges(history, i, up) ==
    IF i = 0 THEN 0
    ELSE LET n == Len(history)
             change == history[n - i + 1] - history[n - i]
         IN  (IF up /\ change > 0 THEN change
              ELSE IF ~up /\ change < 0 THEN Abs(change)
              ELSE 0) + SumChanges(history, i - 1, up)

\* relative_strength_index(prices, period)
relative_strength_index(history, period) ==
    IF Len(history) < period + 1 THEN None
    ELSE LET avg_gain == Rat(SumChanges(history, period, TRUE), period)
             avg_loss == Rat(SumChanges(history, period, FALSE), period)
         IN  IF avg_loss = RInt(0) THEN RInt(100)
             ELSE LET rs == RDiv(avg_gain, avg_loss)
                  IN  RSub(RInt(100), RDiv(RInt(100), RAdd(RInt(1), rs)))

\* RSIStrategy.should_buy: the truth of
\* rsi and rsi < 30 and current_balance >= investment_amount
RSIShouldBuy(history, current_balance, amount) ==
    LET rsi == relative_strength_index(history, rsi_period)
    IN  /\ Truthy(rsi)
        /\ RLess(rsi, RInt(30))
        /\ RLeq(amount, current_balance)

\* RSIStrategy.should_sell: the truth of
\* rsi and rsi > 70 and current_position > 0
RSIShouldSell(history, current_position) ==
    LET rsi == relative_strength_index(history, rsi_period)
    IN  /\ Truthy(rsi)
        /\ RLess(RInt(70), rsi)
        /\ RLess(RInt(0), current_position)

\* A price history of n ticks: from a start price it falls by a for the
\* first k changes and rises by b afterwards.
Ramp(n, k, a, b) ==
    [i \in 1..n |-> IF i - 1 <= k THEN 1 + (k - (i - 1)) * a
                    ELSE 1 + (i - 1 - k) * b]

RsiLengths == {rsi_period - 1, rsi_period, rsi_period + 1, rsi_period + 2}

RsiHistories ==
    {Ramp(n, k, a, b) : n \in RsiLengths, k \in 0..(rsi_period + 1),
                        a \in 0..MaxStep, b \in 0..MaxStep}

RsiBalances == {RInt(0), InvestmentAmount(50), RInt(initial_balance)}
RsiPositions == {RInt(0), RInt(1)}

InitRsi ==
    /\ rsi_pc = "idle"
    /\ rsi_args = [prices |-> <<>>, current_balance |-> RInt(0),
                   investment_amount |-> RInt(0),
                   current_position |-> RInt(0)]
    /\ rsi_result = [method |-> "none", truthy |-> FALSE]

\* strategy.should_buy(prices, current_balance, investment_amount)
rsi_should_buy(history, current_balance, amount) ==
    /\ rsi_pc = "idle"
    /\ rsi_pc' = "done"
    /\ rsi_args' = [prices |-> history, current_balance |-> current_balance,
                    investment_amount |-> amount,
                    current_position |-> RInt(0)]
    /\ rsi_result' = [method |-> "should_buy",
                      truthy |-> RSIShouldBuy(history, current_balance,
                                              amount)]
    /\ UNCHANGED nonRsiVars

\* strategy.should_sell(prices, current_position)
rsi_should_sell(history, current_position) ==
    /\ rsi_pc = "idle"
    /\ rsi_pc' = "done"
    /\ rsi_args' = [prices |-> history, current_balance |-> RInt(0),
                    investment_amount |-> RInt(0),
                    current_position |-> current_position]
    /\ rsi_result' = [method |-> "should_sell",
                      truthy |-> RSIShouldSell(history, current_position)]
    /\ UNCHANGED nonRsiVars

NextRsi ==
    \/ \E history \in RsiHistories, b \in RsiBalances :
          rsi_should_buy(history, b, InvestmentAmount(50))
    \/ \E history \in RsiHistories, q \in RsiPositions :
          rsi_should_sell(history, q)

(***************************************************************************)
(* simulator.py: moving_average, MovingAverageStrategy, simulate_trade and *)
(* the loop of main, run with the "Moving Average (MA)" strategy.          *)
(***************************************************************************)
ma_period == 10

RECURSIVE SumSeq(_)
SumSeq(s) == IF s = <<>> THEN 0 ELSE Head(s) + SumSeq(Tail(s))

\* moving_average(prices, period)
moving_average(history, period) ==
    IF Len(history) < period THEN None
    ELSE Rat(SumSeq(SubSeq(history, Len(history) - period + 1,
                           Len(history))), period)

\* MovingAverageStrategy.should_buy: the truth of
\* ma and current_price > ma and current_balance >= investment_amount
MAShouldBuy(history, current_balance, amount) ==
    LET ma == moving_average(history, ma_period)
        current_price == RInt(history[Len(history)])
    IN  /\ Truthy(ma)
        /\ RLess(ma, current_price)
        /\ RLeq(amount, current_balance)

\* MovingAverageStrategy.should_sell: the truth of
\* ma and current_price < ma and current_position > 0
MAShouldSell(history, current_position) ==
    LET ma == moving_average(history, ma_period)
        current_price == RInt(history[Len(history)])
    IN  /\ Truthy(ma)
        /\ RLess(current_price, ma)
        /\ RLess(RInt(0), current_position)

\* TradingBot.simulate_trade: the bot after the call
simulate_trade(b, history, amount) ==
    IF Len(history) < 2 THEN b
    ELSE IF MAShouldBuy(history, b.current_balance, amount)
         THEN SimBuy(b, RInt(history[Len(history)]), amount)
    ELSE IF MAShouldSell(history, b.current_position)
         THEN SimSell(b, RInt(history[Len(history)]))
    ELSE b

InitSim ==
    /\ sim_pc = "setup"
    /\ investment_amount = RInt(0)
    /\ prices = <<>>
    /\ timestamps = <<>>
    /\ bot = TradingBot(initial_balance)
    /\ fetch_errors = 0
    /\ trade_calls = 0

\* lines 242-306: the slider sets investment_amount, the bot is created
main_setup(pct) ==
    /\ sim_pc = "setup"
    /\ sim_pc' = "loop"
    /\ investment_amount' = InvestmentAmount(pct)
    /\ UNCHANGED <<prices, timestamps, bot, fetch_errors, trade_calls,
                   nonSimVars>>

\* an iteration whose None check guards the two appends only
main_loop_trades_anyway(resp) ==
    /\ sim_pc = "loop"
    /\ Len(prices) < MaxTicks
    /\ fetch_errors < MaxFetchErrors
    /\ LET current_price == get_current_price(resp)
       IN  /\ IF current_price # None
              THEN /\ prices' = Append(prices, resp.price)
                   /\ timestamps' = Append(timestamps,
                                       Len(prices) + fetch_errors + 1)
                   /\ UNCHANGED fetch_errors
              ELSE /\ fetch_errors' = fetch_errors + 1
                   /\ UNCHANGED <<prices, timestamps>>
           /\ bot' = simulate_trade(bot, prices', investment_amount)
           /\ trade_calls' = trade_calls + 1
    /\ UNCHANGED <<sim_pc, investment_amount, nonSimVars>>

\* lines 367-413: one iteration of "while True", for the response the
\* price request gets; a timestamp is the number of the iteration
main_loop(resp) ==
    /\ sim_pc = "loop"
    /\ Len(prices) < MaxTicks
    /\ fetch_errors < MaxFetchErrors
    /\ LET current_price == get_current_price(resp)
       IN  IF current_price # None
           THEN /\ prices' = Append(prices, resp.price)
                /\ timestamps' = Append(timestamps,
                                        Len(prices) + fetch_errors + 1)
                /\ bot' = simulate_trade(bot, prices', investment_amount)
                /\ trade_calls' = trade_calls + 1
                /\ UNCHANGED fetch_errors
           ELSE /\ fetch_errors' = fetch_errors + 1
                /\ UNCHANGED <<prices, timestamps, bot, trade_calls>>
    /\ UNCHANGED <<sim_pc, investment_amount, nonSimVars>>

NextSim ==
    \/ \E pct \in InvestmentPercentages : main_setup(pct)
    \/ \E resp \in PriceResponses : main_loop(resp)

(***************************************************************************)
(* Specifications                                                          *)
(***************************************************************************)
Init ==
    /\ InitFetcher
    /\ InitBacktest
    /\ InitDownload
    /\ InitScript
    /\ InitBot
    /\ InitRsi
    /\ InitSim

SpecFetcher == Init /\ [][NextFetcher]_vars

SpecBacktest == Init /\ [][NextBacktest]_vars

SpecDownload == Init /\ [][NextDownload]_vars

SpecScript == Init /\ [][NextScript]_vars

SpecBot == Init /\ [][NextBot]_vars

SpecRsi == Init /\ [][NextRsi]_vars

SpecSim == Init /\ [][NextSim]_vars

\* the script runs each of its statements in turn
SpecScriptLive == SpecScript /\ WF_vars(NextScript)

(***************************************************************************)
(* Claims about binance-real-time-fetcher.py, checked under SpecFetcher.   *)
(***************************************************************************)
SavePcs == {"sv_lock", "sv_copy", "sv_clear", "sv_read", "sv_write"}

\* C1: every append to current_second_data (on_message) and every copy and
\* clear of it (save_to_parquet) happens while the acting thread holds
\* buffer_lock, under every interleaving of the three threads.
C1_LockHeldOnBufferAccess ==
    \A t \in Threads :
        pc[t] \in {"om_append", "sv_copy", "sv_clear"} => buffer_lock = t

\* the websocket thread is about to append while the save thread waits for
\* the lock
C1_Witness ==
    /\ pc["ws"] = "om_append"
    /\ pc["saver"] = "sv_lock"

\* on_close has run: the connection is over
ConnectionOver == pc["ws"] = "ws_done" \/ ret["ws"] = "ws_done"

\* C2: the periodic save thread does not terminate before the connection
\* has been opened and then closed (it keeps running while the websocket
\* connection is pending or open).
C2_SaveThreadOutlivesConnection ==
    pc["saver"] = "ps_done" => ConnectionOver

\* nothing is buffered, in flight or being flushed, no flush failed and no
\* two flushes worked on the file at the same time
Quiescent ==
    /\ failures = 0
    /\ ~overlap
    /\ current_second_data = <<>>
    /\ \A t \in Threads : pc[t] \notin SavePcs
    /\ pc["ws"] \notin {"om_lock", "om_append"}

\* C3: once every received trade has been flushed, each row of the day's
\* file has volume equal to the sum of the volumes, and price equal to the
\* mean of the prices, of all trades received in that row's second,
\* whichever flushes those trades were part of.
C3_RowsAggregateAllTrades ==
    Quiescent =>
        \A i \in 1..Len(parquet.rows) :
            LET row == parquet.rows[i]
                g == InSecond(received, row.timestamp)
            IN  /\ g # <<>>
                /\ row.volume = SumVolume(g)
                /\ row.price = Rat(SumPrice(g), Len(g))

\* C4: when stop_streaming has returned, the buffer is empty, every trade
\* appended by on_message has been taken by a save_to_parquet call, and the
\* websocket thread has ended, so no on_message appends afterwards.
C4_StopLeavesBufferEmpty ==
    pc["main"] = "m_done" =>
        /\ current_second_data = <<>>
        /\ taken = Len(received)
        /\ pc["ws"] = "ws_done"

\* stop_streaming has returned after trades were received
C4_Witness ==
    /\ pc["main"] = "m_done"
    /\ received # <<>>

\* C5: when reading, merging or writing the file fails inside
\* save_to_parquet, the call returns to its caller, the batch it took is
\* dropped (not put back, not retried) and the buffer is left as it was.
C5_SaveFailureDropsBatch ==
    [][failures' # failures =>
          /\ current_second_data' = current_second_data
          /\ \E t \in Threads :
                /\ pc[t] \in {"sv_read", "sv_write"}
                /\ current_data[t] # <<>>
                /\ pc'[t] = ret[t]
                /\ current_data'[t] = <<>>
                /\ \A u \in Threads \ {t} : current_data'[u] = current_data[u]
      ]_vars

\* a flush has failed, its batch is gone and the buffer is empty
C5_Witness ==
    /\ failures > 0
    /\ received # <<>>
    /\ current_second_data = <<>>
    /\ \A t \in Threads : current_data[t] = <<>>

\* C6: a message that is not JSON or lacks E, p or q makes on_message print
\* an error and return, leaving current_second_data, trade_count and
\* last_save_time unchanged.
C6_MalformedMessageIgnored ==
    [][/\ \A m \in MalformedMessages :
              on_message(m) => msg_errors' = msg_errors + 1
       /\ msg_errors' # msg_errors =>
              /\ UNCHANGED <<current_second_data, trade_count, last_save_time>>
              /\ pc'["ws"] = "ws_loop"
      ]_vars

\* an error was printed for a message while the buffer held a trade
C6_Witness ==
    /\ msg_errors > 0
    /\ current_second_data # <<>>
    /\ trade_count > 0

\* C18: under every interleaving of on_message with the save_to_parquet
\* calls of the three threads, each trade appended to current_second_data
\* is in the batch of exactly one save_to_parquet call: the batches taken
\* so far, end to end, followed by what the buffer still holds, are the
\* trades appended, each once and in their order.
C18_EachTradeInOneBatch ==
    flushed \o current_second_data = received

\* a trade is appended while another thread's flush is past its clear,
\* and a flush has already taken a batch
C18_Witness ==
    /\ \E t \in Threads : pc[t] \in {"sv_read", "sv_write"}
    /\ flushed # <<>>
    /\ current_second_data # <<>>

\* the timestamps of the rows of a parquet file
RowSeconds(file) ==
    IF file.exists THEN {file.rows[i].timestamp : i \in 1..Len(file.rows)}
                   ELSE {}

\* C19: a row written to the day's parquet file by one save_to_parquet
\* call is never lost through a later or concurrent save_to_parquet call:
\* every second that has a row in the file still has one after each step.
C19_WrittenRowsNeverLost ==
    [][RowSeconds(parquet) \subseteq RowSeconds(parquet')]_vars

(***************************************************************************)
(* Claims about backtest_strategy, checked under SpecBacktest.             *)
(***************************************************************************)
Sells == SelectSeq(trades, LAMBDA t : t.type = "sell")

ProfitableSells == SelectSeq(Sells, LAMBDA t : RLess(RInt(0), t["return"]))

\* C7: backtest_strategy never fails, and it returns Win Rate = completed
\* trades with a positive return / Total Trades x 100, between 0 and 100,
\* and Win Rate 0 when no trade has been completed (also when the only
\* record is a buy that was never sold).
C7_WinRate ==
    /\ bt_pc # "raised"
    /\ bt_pc = "returned" =>
          /\ RLeq(RInt(0), result.win_rate)
          /\ RLeq(result.win_rate, RInt(100))
          /\ IF Sells = <<>>
             THEN result.win_rate = RInt(0)
             ELSE result.win_rate = Rat(100 * Len(ProfitableSells), Len(Sells))

\* C8: Total Trades equals the number of sell records in Trades (the
\* completed buy-then-sell pairs); a position still open after the last row
\* is not counted.
C8_TotalTradesCountsSells ==
    bt_pc = "returned" => result.total_trades = Len(Sells)

\* a run that sold once and ends with a second position still open
C8_Witness ==
    /\ bt_pc = "returned"
    /\ Len(trades) = 3
    /\ result.total_trades = 1

\* the maximum of the curve up to position i
RunningPeak(curve, i) ==
    CHOOSE v \in {curve[j] : j \in 1..i} : \A j \in 1..i : RLeq(curve[j], v)

DrawdownAt(curve, i) ==
    RMul(RDiv(RSub(RunningPeak(curve, i), curve[i]), RunningPeak(curve, i)),
         RInt(100))

LargestDrawdown(curve) ==
    CHOOSE d \in {DrawdownAt(curve, i) : i \in 1..Len(curve)} :
        \A i \in 1..Len(curve) : RLeq(DrawdownAt(curve, i), d)

NeverFalls(curve) ==
    \A i \in 1..Len(curve) : \A j \in 1..i : RLeq(curve[j], curve[i])

\* C9: Max Drawdown is the largest (running peak - value) / running peak
\* x 100 over the positions of the equity curve; it lies between 0 and 100,
\* is 0 when the curve never falls below an earlier value, and visiting the
\* first entry again after seeding the peak with it changes nothing.
C9_MaxDrawdown ==
    bt_pc = "returned" =>
        /\ result.max_dd = LargestDrawdown(equity_curve)
        /\ RLeq(RInt(0), result.max_dd)
        /\ RLeq(result.max_dd, RInt(100))
        /\ NeverFalls(equity_curve) => result.max_dd = RInt(0)
        /\ result.max_dd =
              DrawdownLoop(equity_curve[1], RInt(0), Tail(equity_curve))

\* a curve that rose above the initial capital and then fell
C9_Witness ==
    /\ bt_pc = "returned"
    /\ RLess(RInt(0), result.max_dd)
    /\ \E i \in 1..Len(equity_curve) :
          RLess(RInt(initial_capital), equity_curve[i])

(***************************************************************************)
(* Claims about download_binance_data, checked under SpecDownload.         *)
(***************************************************************************)

\* C10: download_binance_data returns None, without raising, for every
\* failure of the download or of the extraction: an HTTP error status, a
\* connection failure, a body that is no zip archive, and an archive
\* without the expected CSV member.
C10_DownloadFailuresReturnNone ==
    dl_exc # "none" => (dl_pc = "done" /\ dl_result = "None")

(***************************************************************************)
(* Claims about process_trade_files, checked under SpecScript.             *)
(***************************************************************************)
Skipped(v) == ~v.file.exists \/ ReadRaises(v.file)

\* the aggregates of the days whose file was read and processed, in order
GoodAggregates ==
    LET good == SelectSeq(visited, LAMBDA v : ~Skipped(v))
    IN  [i \in 1..Len(good) |-> AggregateDay(good[i].file.rows)]

\* the datetimes start_date, start_date + 1 day, ... up to end_date
DueDates ==
    IF start_date > end_date THEN <<>>
    ELSE [i \in 1..((end_date - start_date) \div OneDay + 1) |->
              start_date + (i - 1) * OneDay]

VisitedDates == [i \in 1..Len(visited) |-> visited[i].date]

\* C11: a day whose file is missing or whose processing raises is skipped
\* with a printed message and adds nothing to all_data; the loop goes on to
\* every later day up to end_date, and the aggregates of the days that
\* succeeded are what is written.
C11_FailedDaySkipped ==
    /\ all_data = GoodAggregates
    /\ \A i \in 1..Len(visited) :
          Skipped(visited[i]) =>
              \E j \in 1..Len(printed) :
                  printed[j] = <<IF visited[i].file.exists THEN "Error"
                                                           ELSE "Warning",
                                 DateStr(visited[i].date)>>
    /\ pt_pc = "done" =>
          /\ VisitedDates = DueDates
          /\ GoodAggregates # <<>> =>
                output = [exists |-> TRUE,
                          rows |-> SortByDatetime(Concat(GoodAggregates))]

\* a run with a missing day and a raising day, each followed by a day
\* that was processed and written
C11_Witness ==
    /\ pt_pc = "done"
    /\ output.exists
    /\ \E i, j \in 1..Len(visited) :
          /\ i < j
          /\ Skipped(visited[i])
          /\ ~Skipped(visited[j])
    /\ \E i \in 1..Len(visited) : ~visited[i].file.exists
    /\ \E i \in 1..Len(visited) :
          visited[i].file.exists /\ ReadRaises(visited[i].file)

\* the calendar days from that of start_date to that of end_date
CalendarDays ==
    IF start_date > end_date THEN <<>>
    ELSE [i \in 1..(DateStr(end_date) - DateStr(start_date) + 1) |->
              DateStr(start_date) + i - 1]

VisitedDays == [i \in 1..Len(visited) |-> DateStr(visited[i].date)]

NoOutputWithoutData ==
    (pt_pc = "done" /\ (start_date > end_date \/ GoodAggregates = <<>>))
        => ~output.exists

C12_VisitsInv ==
    /\ \A i \in 1..Len(visited) :
          /\ i <= Len(DueDates)
          /\ visited[i].date = DueDates[i]
    /\ pt_pc = "done" =>
          /\ VisitedDates = DueDates
          /\ (start_date % OneDay <= end_date % OneDay)
                => VisitedDays = CalendarDays
    /\ NoOutputWithoutData

LastTransaction(b) == b.transactions[Len(b.transactions)]

\* the step is a call of sim_bot.sell
IsSellStep ==
    /\ Len(sim_bot'.transactions) = Len(sim_bot.transactions) + 1
    /\ LastTransaction(sim_bot').type = "sell"

\* the price of the last 'buy' record of a log, None when it has none
RECURSIVE MostRecentBuyPrice(_)
MostRecentBuyPrice(txs) ==
    IF txs = <<>> THEN None
    ELSE IF txs[Len(txs)].type = "buy" THEN txs[Len(txs)].price
    ELSE MostRecentBuyPrice(SubSeq(txs, 1, Len(txs) - 1))

\* C16: TradingBot.sell of simulator.py appends a 'sell' transaction whose
\* quantity is the position held immediately before the sale and whose
\* entry_price is the price of the most recent buy, adds position x price
\* to current_balance, and leaves current_position equal to 0.
C16_SellRecordsPositionHeld ==
    [][IsSellStep =>
         LET tx == LastTransaction(sim_bot')
         IN  /\ tx.quantity = sim_bot.current_position
             /\ tx.entry_price = MostRecentBuyPrice(sim_bot.transactions)
             /\ sim_bot'.current_balance =
                   RAdd(sim_bot.current_balance,
                        RMul(sim_bot.current_position, tx.price))
             /\ sim_bot'.current_position = RInt(0)
             /\ SubSeq(sim_bot'.transactions, 1, Len(sim_bot.transactions))
                   = sim_bot.transactions]_vars

\* a sale of a position bought in two purchases at different prices
C16_Witness ==
    LET txs == sim_bot.transactions
        n == Len(txs)
    IN  /\ n >= 3
        /\ txs[n].type = "sell"
        /\ RLess(RInt(0), txs[n].quantity)
        /\ txs[n - 1].type = "buy"
        /\ txs[n - 2].type = "buy"
        /\ txs[n - 2].price # txs[n - 1].price
        /\ txs[n].entry_price = txs[n - 1].price

\* C17: get_portfolio returns a USD amount for every reachable bot state
\* and every outcome of the price fetch: current_balance +
\* current_position x current BTC price when a position is held, and
\* current_balance when none is held.
C17_PortfolioIsAnAmount ==
    [][(ncalls' # ncalls /\ sim_bot' = sim_bot) =>
         /\ portfolio'.status = "returned"
         /\ portfolio'.value =
               IF RLess(RInt(0), sim_bot.current_position)
               THEN RAdd(sim_bot.current_balance,
                         RMul(sim_bot.current_position, fetched'))
               ELSE sim_bot.current_balance]_vars

\* C20: the TradingBot of page.py and that of simulator.py, given the same
\* buy and sell calls from the same initial balance, stay in step: equal
\* current_balance, current_position and entry_price after every call, and
\* transaction logs that agree on type, quantity and price of every record.
C20_BotsStayInStep ==
    /\ page_bot.current_balance = sim_bot.current_balance
    /\ page_bot.current_position = sim_bot.current_position
    /\ page_bot.entry_price = sim_bot.entry_price
    /\ Len(page_bot.transactions) = Len(sim_bot.transactions)
    /\ \A i \in 1..Len(sim_bot.transactions) :
          /\ page_bot.transactions[i].type = sim_bot.transactions[i].type
          /\ page_bot.transactions[i].quantity
                = sim_bot.transactions[i].quantity
          /\ page_bot.transactions[i].price = sim_bot.transactions[i].price

(***************************************************************************)
(* Claims about RSIStrategy, checked under SpecRsi.                        *)
(***************************************************************************)
\* the RSI of the last 14 changes by its definition, 100 * gains / (gains +
\* losses), with 100 when there are no losses; None when there are fewer
\* than 15 prices
RsiValue(history) ==
    IF Len(history) < rsi_period + 1 THEN None
    ELSE LET gains == SumChanges(history, rsi_period, TRUE)
             losses == SumChanges(history, rsi_period, FALSE)
         IN  IF losses = 0 THEN RInt(100)
             ELSE Rat(100 * gains, gains + losses)

\* C14: RSIStrategy.should_buy is truthy exactly when the RSI is defined,
\* is below 30 and current_balance >= investment_amount, and should_sell is
\* truthy exactly when the RSI is defined, is above 70 and a position is
\* held, for every RSI value from 0 to 100 inclusive.
C14_RsiSignals ==
    LET rsi == RsiValue(rsi_args.prices)
    IN  /\ rsi_result.method = "should_buy" =>
              (rsi_result.truthy <=>
                  /\ rsi # None
                  /\ RLess(rsi, RInt(30))
                  /\ RLeq(rsi_args.investment_amount,
                          rsi_args.current_balance))
        /\ rsi_result.method = "should_sell" =>
              (rsi_result.truthy <=>
                  /\ rsi # None
                  /\ RLess(RInt(70), rsi)
                  /\ RLess(RInt(0), rsi_args.current_position))

(***************************************************************************)
(* Claims about the loop of simulator.py's main, checked under SpecSim.    *)
(***************************************************************************)
\* C13: an iteration of main's loop in which get_current_price fails and
\* returns None appends nothing to prices or timestamps, makes no
\* simulate_trade call and leaves the bot's balance, position and
\* transactions unchanged; the loop then goes on to its next iteration.
C13_FailedFetchChangesNothing ==
    [][fetch_errors' # fetch_errors =>
         /\ prices' = prices
         /\ timestamps' = timestamps
         /\ trade_calls' = trade_calls
         /\ bot' = bot
         /\ sim_pc' = "loop"]_vars

\* a price request has failed while the bot holds a position and the
\* price is above its moving average
C13_Witness ==
    /\ fetch_errors > 0
    /\ RLess(RInt(0), bot.current_position)
    /\ MAShouldBuy(prices, RInt(initial_balance), investment_amount)

\* the last price of a history is above its 10-period moving average
AboveAverage(history) ==
    /\ Len(history) >= ma_period
    /\ RLess(moving_average(history, ma_period), RInt(history[Len(history)]))

\* the last price of a history is below its 10-period moving average
BelowAverage(history) ==
    /\ Len(history) >= ma_period
    /\ RLess(RInt(history[Len(history)]), moving_average(history, ma_period))

\* the step appends a transaction of the given type to the bot's log
Executes(type) ==
    /\ Len(bot'.transactions) = Len(bot.transactions) + 1
    /\ LastTransaction(bot').type = type

\* C15: with MovingAverageStrategy a buy is executed only on a tick where
\* the price crosses above the 10-period moving average (above it now, not
\* above it on the previous tick), and a sell only where it crosses below,
\* so that a run of consecutive ticks with the price above the average
\* holds at most one buy.
C15_TradesOnlyOnCrossing ==
    [][/\ Executes("buy") => (AboveAverage(prices') /\ ~AboveAverage(prices))
       /\ Executes("sell") => (BelowAverage(prices') /\ ~BelowAverage(prices))
      ]_vars

=============================================================================
